---------------------------- MODULE Spec2Model ----------------------------
(***************************************************************************)
(* Transaction lifecycle of the MTN MoMo payment bridge:                   *)
(*   POST /api/momo/callback   (MoMoCallbackHandler.js)                    *)
(*   GET  /api/momo/status/:id (routes/payment.routes.js)                  *)
(*   POST /api/momo/pay        (routes/payment.routes.js)                  *)
(* over the shared in-memory Map (transactionStore = pendingTransactions), *)
(* the Supabase table "orders" and the payment network.                    *)
(*                                                                         *)
(* Every handler is an async function: it runs atomically up to an await   *)
(* on the store or on the network, where other handlers may run.  Each     *)
(* action below is one such atomic stretch of a handler.  The awaits on    *)
(* the hook stubs resolve without I/O and are not interleaving points.     *)
(***************************************************************************)
EXTENDS Integers, Sequences, FiniteSets, TLC

(***************************************************************************)
(* Bounds of the model.                                                    *)
(***************************************************************************)
\* number of HTTP requests (of any kind) the model serves
MaxRequests == 2

(***************************************************************************)
(* Values.  Null stands for every JS value that `x || null` turns into     *)
(* null: undefined, null, the empty string.                                *)
(***************************************************************************)
Null == "null"

\* the reference ids uuidv4() hands out, in order
RefSeq == <<"R1">>
RefIds == {RefSeq[i] : i \in DOMAIN RefSeq}
\* the caller-supplied order identifier
ExtIds == {"E1"}
\* the network's financial transaction id
FtIds == {"FT1"}
\* a reference id this server never issued
OtherRefIds == {"R0"}
\* every value a cache key or a reference_id can take
Keys == RefIds \cup OtherRefIds \cup ExtIds \cup FtIds

Terminal == {"SUCCESSFUL", "FAILED"}
NonTerminal == {"PENDING", "CREATED"}
KnownStatus == Terminal \cup NonTerminal
\* what a callback body can carry as status: absent, a known one, or another string
CallbackStatus == KnownStatus \cup {Null, "TIMEOUT"}

\* JS `a || b` on strings
Or(a, b) == IF a # Null THEN a ELSE b

(***************************************************************************)
(* POST /callback: extraction of the identifiers.                          *)
(* A request is [header, signature, referenceId, externalId,               *)
(* financialTransactionId, status, reason]: the x-reference-id and         *)
(* x-momo-signature headers and the body fields the handler reads.  The    *)
(* body fields amount, currency, payer, payeeNote and payerMessage are     *)
(* read and merged exactly like financialTransactionId (`x || null`, then  *)
(* written over the record) and are not carried separately.  The field     *)
(* fault is not part of the HTTP request: it names the hook whose body     *)
(* raises an error while this request is processed (Null: none does).      *)
(***************************************************************************)
\* const financialTransactionId = callbackPayload.financialTransactionId || null
FinancialTransactionIdOf(req) == Or(req.financialTransactionId, Null)

\* const externalId = callbackPayload.externalId || null
ExternalIdOf(req) == Or(req.externalId, Null)

\* Mutation: the body's externalId is preferred to the header.
ReferenceIdOf_ExternalFirst(req) ==
    Or(ExternalIdOf(req), Or(req.header, req.referenceId))

\* const referenceId = req.headers["x-reference-id"] || callbackPayload.referenceId || externalId
ReferenceIdOf(req) == Or(req.header, Or(req.referenceId, ExternalIdOf(req)))

\* Mutation: the validation does not look at financialTransactionId.
NoIdentifier_WithoutFinancialId(req) ==
    /\ ReferenceIdOf(req) = Null
    /\ ExternalIdOf(req) = Null

\* if (!referenceId && !externalId && !financialTransactionId) return 400
NoIdentifier(req) ==
    /\ ReferenceIdOf(req) = Null
    /\ ExternalIdOf(req) = Null
    /\ FinancialTransactionIdOf(req) = Null

\* const transactionId = referenceId || externalId || financialTransactionId
TransactionIdOf(req) ==
    Or(ReferenceIdOf(req), Or(ExternalIdOf(req), FinancialTransactionIdOf(req)))

(***************************************************************************)
(* verifyCallbackSignature.  A signature header is Null (absent), "valid"  *)
(* (the HMAC of the body), "forged" (another string of the same length) or *)
(* "short" (a string of another length: timingSafeEqual throws).           *)
(***************************************************************************)
Signatures == {Null, "valid", "forged", "short"}

\* Mutation: a signature of another length is rejected instead of throwing.
verifyCallbackSignature_LengthChecked(signature, secret) ==
    IF signature = Null \/ ~secret THEN "true"
    ELSE IF signature = "valid" THEN "true"
    ELSE "false"

verifyCallbackSignature(signature, secret) ==
    IF signature = Null \/ ~secret THEN "true"
    ELSE IF signature = "short" THEN "throw"
    ELSE IF signature = "valid" THEN "true"
    ELSE "false"

(***************************************************************************)
(* Records.  A cache record (a value of the Map) carries the fields the    *)
(* handlers write; Null is an absent field, orderId 0 an absent order id.  *)
(***************************************************************************)
NoRecord ==
    [referenceId |-> Null, orderId |-> 0, status |-> Null,
     financialTransactionId |-> Null, externalId |-> Null,
     reason |-> Null, failureReason |-> Null]

NoRequest ==
    [header |-> Null, signature |-> Null, referenceId |-> Null,
     externalId |-> Null, financialTransactionId |-> Null,
     status |-> Null, reason |-> Null, fault |-> Null]

(***************************************************************************)
(* The table "orders": a sequence of rows, a row's id being its index.     *)
(***************************************************************************)
\* .eq("reference_id", ref)
RowsByReference(rows, ref) ==
    {i \in DOMAIN rows : ref # Null /\ rows[i].reference_id = ref}

\* .or(`reference_id.eq.${transactionId},external_id.eq.${externalId}`)
RowsByReferenceOrExternal(rows, transactionId, externalId) ==
    {i \in DOMAIN rows :
        \/ (transactionId # Null /\ rows[i].reference_id = transactionId)
        \/ (externalId # Null /\ rows[i].external_id = externalId)}

\* .single(): the row when exactly one matches, otherwise an error (0 here)
Single(ids) == IF Cardinality(ids) = 1 THEN CHOOSE i \in ids : TRUE ELSE 0

\* .update(patch) on the rows `ids`
UpdateRows(rows, ids, patch) ==
    [i \in DOMAIN rows |->
        IF i \in ids
        THEN [f \in DOMAIN rows[i] |->
                 IF f \in DOMAIN patch THEN patch[f] ELSE rows[i][f]]
        ELSE rows[i]]

(***************************************************************************)
(* POST /callback: the record the callback is merged onto.                 *)
(***************************************************************************)
\* transactionData = { referenceId: transactionId, createdAt }
SynthesizedRecord(transactionId) == [NoRecord EXCEPT !.referenceId = transactionId]

\* transactionData = { referenceId: order.reference_id || transactionId,
\*                     orderId: order.id, status: order.payment_status, createdAt }
RecordOfOrder(rows, id, transactionId) ==
    [NoRecord EXCEPT !.referenceId = Or(rows[id].reference_id, transactionId),
                     !.orderId = id,
                     !.status = rows[id].payment_status]

\* Mutation: the merge names the record after the body's externalId when there is one.
MergeCallback_ExternalReference(transactionData, req) ==
    [transactionData EXCEPT
        !.referenceId = Or(ExternalIdOf(req), TransactionIdOf(req)),
        !.financialTransactionId = FinancialTransactionIdOf(req),
        !.externalId = ExternalIdOf(req),
        !.status = Or(req.status, Null),
        !.reason = Or(req.reason, Null)]

\* transactionData = { ...transactionData, referenceId: transactionId,
\*   financialTransactionId, externalId, ..., status, ..., reason, ... }
MergeCallback(transactionData, req) ==
    [transactionData EXCEPT
        !.referenceId = TransactionIdOf(req),
        !.financialTransactionId = FinancialTransactionIdOf(req),
        !.externalId = ExternalIdOf(req),
        !.status = Or(req.status, Null),
        !.reason = Or(req.reason, Null)]

(***************************************************************************)
(* processSuccessfulPayment / processFailedPayment / processPendingPayment *)
(***************************************************************************)
\* the updateData each handler sends to the store
UpdateData(transactionData, status, reason) ==
    IF status = "SUCCESSFUL"
    THEN [payment_status |-> "SUCCESSFUL",
          financial_transaction_id |-> Or(transactionData.financialTransactionId, Null),
          callback_received |-> TRUE]
    ELSE IF status = "FAILED"
    THEN [payment_status |-> "FAILED",
          failure_reason |-> Or(reason, "Unknown"),
          callback_received |-> TRUE]
    ELSE [payment_status |-> "PENDING", callback_received |-> TRUE]

\* Mutation: the failure reason is stored as the callback carries it.
ProcessedRecord_ReasonVerbatim(transactionData, status, reason) ==
    IF status = "SUCCESSFUL"
    THEN [transactionData EXCEPT !.status = "SUCCESSFUL"]
    ELSE IF status = "FAILED"
    THEN [transactionData EXCEPT !.status = "FAILED", !.failureReason = reason]
    ELSE [transactionData EXCEPT !.status = "PENDING"]

\* the record each handler puts into the Map after the store update
ProcessedRecord(transactionData, status, reason) ==
    IF status = "SUCCESSFUL"
    THEN [transactionData EXCEPT !.status = "SUCCESSFUL"]
    ELSE IF status = "FAILED"
    THEN [transactionData EXCEPT !.status = "FAILED",
                                 !.failureReason = Or(reason, "Unknown")]
    ELSE [transactionData EXCEPT !.status = "PENDING"]

HookNames ==
    {"notifyListeners", "sendConfirmationEmail", "updateInventory",
     "awardLoyaltyPoints", "triggerOrderFulfillment",
     "sendFailureNotification", "logFailedTransaction"}

SuccessHooks ==
    {"sendConfirmationEmail", "updateInventory", "awardLoyaltyPoints",
     "triggerOrderFulfillment"}

FailureHooks == {"sendFailureNotification", "logFailedTransaction"}

\* the calls each handler makes after the cache update
HooksOf(status) ==
    IF status = "SUCCESSFUL" THEN {"notifyListeners"} \cup SuccessHooks
    ELSE IF status = "FAILED" THEN {"notifyListeners"} \cup FailureHooks
    ELSE {"notifyListeners"}

\* Mutation: the inventory is updated before the confirmation email is sent.
HookOrder_InventoryFirst(status) ==
    IF status = "SUCCESSFUL"
    THEN <<"notifyListeners", "updateInventory", "sendConfirmationEmail",
           "awardLoyaltyPoints", "triggerOrderFulfillment">>
    ELSE IF status = "FAILED"
    THEN <<"notifyListeners", "sendFailureNotification", "logFailedTransaction">>
    ELSE <<"notifyListeners">>

\* Mutation: a pending payment is logged for analytics as well.
HookOrder_PendingLogged(status) ==
    IF status = "SUCCESSFUL"
    THEN <<"notifyListeners", "sendConfirmationEmail", "updateInventory",
           "awardLoyaltyPoints", "triggerOrderFulfillment">>
    ELSE IF status = "FAILED"
    THEN <<"notifyListeners", "sendFailureNotification", "logFailedTransaction">>
    ELSE <<"notifyListeners", "logFailedTransaction">>

\* the same calls in the order the handler makes them, each awaited before the next
HookOrder(status) ==
    IF status = "SUCCESSFUL"
    THEN <<"notifyListeners", "sendConfirmationEmail", "updateInventory",
           "awardLoyaltyPoints", "triggerOrderFulfillment">>
    ELSE IF status = "FAILED"
    THEN <<"notifyListeners", "sendFailureNotification", "logFailedTransaction">>
    ELSE <<"notifyListeners">>

\* Mutation: a hook lets the error of its body escape.
HookOutcome_Rethrown(h, fault) == IF h = fault THEN "throw" ELSE "ok"

\* A hook wraps its body in try/catch: an error raised inside is logged and
\* the hook returns.
HookOutcome(h, fault) == IF h = fault THEN "caught" ELSE "ok"

\* the functions that may be registered as callback listeners
Listeners == {"L1", "L2"}

\* Mutation: notifyListeners lets the error of a listener escape.
ListenerOutcome_Uncaught(l, fault) == IF l = fault THEN "throw" ELSE "ok"

\* notifyListeners calls each listener inside try/catch: an error raised by
\* the listener is logged and the iteration goes on.
ListenerOutcome(l, fault) == IF l = fault THEN "caught" ELSE "ok"

\* callbackListeners.forEach: the listeners called out of `ls`, in order; an
\* error that escapes ends the iteration
RECURSIVE Invoked(_, _)
Invoked(ls, fault) ==
    IF ls = <<>> THEN <<>>
    ELSE IF ListenerOutcome(Head(ls), fault) = "throw" THEN <<Head(ls)>>
    ELSE <<Head(ls)>> \o Invoked(Tail(ls), fault)

\* how the call of `h` ends, with the listeners `ls` registered
CallOutcome(h, fault, ls) ==
    IF h = "notifyListeners"
    THEN IF \E i \in DOMAIN ls : ListenerOutcome(ls[i], fault) = "throw"
         THEN "throw" ELSE "ok"
    ELSE HookOutcome(h, fault)

\* the calls made out of `hooks`, in order: a call that throws ends them
RECURSIVE RunHooks(_, _, _)
RunHooks(hooks, fault, ls) ==
    IF hooks = <<>> THEN <<>>
    ELSE IF CallOutcome(Head(hooks), fault, ls) = "throw" THEN <<Head(hooks)>>
    ELSE <<Head(hooks)>> \o RunHooks(Tail(hooks), fault, ls)

(***************************************************************************)
(* State.                                                                  *)
(***************************************************************************)
VARIABLES
    supabase,          \* TRUE when the Supabase client was created at start-up
    secret,            \* TRUE when process.env.MOMO_CALLBACK_SECRET is set
    orders,            \* the table "orders"
    transactionStore,  \* the Map shared by the routes and the callback handler
    momo,              \* the payment network: reference id -> status
    fired,             \* fired[h][k]: calls of hook h for reference id k so far
    timers,            \* timers[k]: pending setTimeout evictions of key k
    nReq,              \* requests received so far
    nRef,              \* reference ids generated so far
    cb,                \* the POST /callback handler in flight (or its last response)
    poll,              \* the GET /status handler in flight (or its last response)
    pay,               \* the POST /pay handler in flight (or its last response)
    callbackListeners, \* the registered listeners, in the order a Set iterates them
    heard,             \* heard[l]: calls of listener l so far and the last record it was given
    cachedToken,       \* momoService: the cached token, named by its exchange
    tokenExpiry,       \* momoService: the cached expiry
    now,               \* the clock, in minutes
    tokenCalls,        \* the getAccessToken calls in flight (or their last outcome)
    exchanges,         \* exchanges answered so far; the origin of the cached token
    phoneInput,        \* the argument of formatLiberianPhone
    phoneResult,       \* what formatLiberianPhone returned for it
    payCall,           \* the module and the details of a call of requestToPay
    requestBody        \* the body that call posts to the network

\* the state of the services the route handlers call
serviceVars ==
    <<cachedToken, tokenExpiry, now, tokenCalls, exchanges, phoneInput, phoneResult,
      payCall, requestBody>>

\* the state of the route handlers
routeVars ==
    <<supabase, secret, orders, transactionStore, momo, fired, timers,
      nReq, nRef, cb, poll, pay, callbackListeners, heard>>

vars == <<routeVars, serviceVars>>

\* only the x-reference-id header identifies the transaction
HeaderOnly(r) ==
    /\ r.header # Null
    /\ r.referenceId = Null
    /\ r.externalId = Null
    /\ r.financialTransactionId = Null

\* The requests POST /callback receives.  The combinations the handler treats
\* alike are drawn once: a request it answers before reading the body further
\* (no identifier, a signature that does not verify), a body referenceId, a
\* status string it does not know.
CallbackRequests ==
    {r \in [header : {Null} \cup RefIds,
            signature : Signatures,
            referenceId : {Null} \cup RefIds,
            externalId : {Null} \cup ExtIds,
            financialTransactionId : {Null} \cup FtIds,
            status : CallbackStatus,
            reason : {Null, "EXPIRED"},
            fault : {Null}] :
        \* a reason accompanies a FAILED status only
        /\ (r.reason # Null => r.status = "FAILED")
        \* the network assigns a financialTransactionId on success only
        /\ (r.financialTransactionId # Null => r.status = "SUCCESSFUL")
        /\ (NoIdentifier(r) => r.status = Null /\ r.signature = Null)
        /\ (r.signature \in {"forged", "short"} =>
               HeaderOnly(r) /\ r.status = "SUCCESSFUL")
        /\ (r.referenceId # Null =>
               /\ r.header = Null
               /\ r.externalId = Null
               /\ r.status = "SUCCESSFUL"
               /\ r.financialTransactionId = Null)
        /\ (r.status = "TIMEOUT" => HeaderOnly(r))}

\* The sender signs its callbacks exactly when the server holds a secret;
\* an unsigned callback reaches such a server as a success by header.
SignatureSent(r) ==
    IF secret
    THEN \/ r.signature # Null
         \/ NoIdentifier(r)
         \/ (HeaderOnly(r) /\ r.status = "SUCCESSFUL")
    ELSE r.signature = Null

\* steps: what the handler has done for its request, in order
CbIdle ==
    [pc |-> "idle", n |-> 0, req |-> NoRequest, transactionData |-> NoRecord,
     updatedOrder |-> 0, code |-> 0, success |-> FALSE, steps |-> <<>>]

\* res.status(code).json({ success, ... })
CbRespond(n, req, transactionData, updatedOrder, code, success) ==
    [pc |-> "done", n |-> n, req |-> req, transactionData |-> transactionData,
     updatedOrder |-> updatedOrder, code |-> code, success |-> success,
     steps |-> <<"respond">>]

CbAwait(pc, n, req, transactionData) ==
    [pc |-> pc, n |-> n, req |-> req, transactionData |-> transactionData,
     updatedOrder |-> 0, code |-> 0, success |-> FALSE, steps |-> <<>>]

\* hooks `hs` called once more for reference id k
Fire(hs, k) ==
    [h \in HookNames |->
        [x \in Keys |-> IF h \in hs /\ x = k THEN fired[h][x] + 1 ELSE fired[h][x]]]

\* the listeners `ls` called once more, with `record`
Hear(ls, record) ==
    [l \in Listeners |->
        IF l \in ls THEN [n |-> heard[l].n + 1, record |-> record] ELSE heard[l]]

\* transactionStore.set(k, record)
MapSet(map, k, record) == (k :> record) @@ map

(***************************************************************************)
(* POST /callback                                                          *)
(***************************************************************************)
\* process*Payment from the cache update on, then the 200 response: with
\* success:true, or from the handler's catch when a call threw
CallbackFinish(n, req, transactionData, updatedOrder) ==
    LET record == ProcessedRecord(transactionData, transactionData.status, Or(req.reason, Null))
        called == RunHooks(HookOrder(transactionData.status), req.fault, callbackListeners)
        thrown == \E i \in DOMAIN called :
                      CallOutcome(called[i], req.fault, callbackListeners) = "throw"
        invoked == IF \E i \in DOMAIN called : called[i] = "notifyListeners"
                   THEN Invoked(callbackListeners, req.fault)
                   ELSE <<>>
    IN  /\ transactionStore' = MapSet(transactionStore, record.referenceId, record)
        /\ fired' = Fire({called[i] : i \in DOMAIN called}, record.referenceId)
        /\ heard' = Hear({invoked[i] : i \in DOMAIN invoked}, record)
        /\ cb' = [CbRespond(n, req, record, updatedOrder, 200, ~thrown) EXCEPT
                    !.steps = (IF supabase THEN <<"store">> ELSE <<>>)
                                 \o <<"cache">> \o called \o <<"respond">>]

\* Mutation: a status the switch does not know is processed as a pending one.
CallbackDispatch_UnknownAsPending(n, req, transactionData) ==
    IF supabase
    THEN /\ cb' = CbAwait("update", n, req, transactionData)
         /\ UNCHANGED <<transactionStore, fired, heard>>
    ELSE CallbackFinish(n, req, transactionData, 0)

\* the switch on status, up to the next await
CallbackDispatch(n, req, transactionData) ==
    IF transactionData.status \in KnownStatus
    THEN IF supabase
         THEN /\ cb' = CbAwait("update", n, req, transactionData)
              /\ UNCHANGED <<transactionStore, fired, heard>>
         ELSE CallbackFinish(n, req, transactionData, 0)
    ELSE \* default: transactionStore.set(transactionId, transactionData)
         /\ transactionStore' = MapSet(transactionStore, TransactionIdOf(req), transactionData)
         /\ cb' = [CbRespond(n, req, transactionData, 0, 200, TRUE) EXCEPT
                     !.steps = <<"cache", "respond">>]
         /\ UNCHANGED <<fired, heard>>

\* Mutation: the store, when connected, is queried before the Map is looked at.
CallbackReceive_StoreFirst(req) ==
    /\ cb.pc \in {"idle", "done"}
    /\ nReq < MaxRequests
    /\ SignatureSent(req)
    /\ nReq' = nReq + 1
    /\ UNCHANGED <<serviceVars, callbackListeners, supabase, secret, orders, momo, timers, nRef, poll, pay>>
    /\ LET n == cb.n + 1
           transactionId == TransactionIdOf(req)
           verdict == verifyCallbackSignature(req.signature, secret)
       IN  IF NoIdentifier(req)
           THEN /\ cb' = CbRespond(n, req, NoRecord, 0, 400, FALSE)
                /\ UNCHANGED <<transactionStore, fired, heard>>
           ELSE IF secret /\ req.signature # Null /\ verdict = "false"
           THEN /\ cb' = CbRespond(n, req, NoRecord, 0, 401, FALSE)
                /\ UNCHANGED <<transactionStore, fired, heard>>
           ELSE IF secret /\ req.signature # Null /\ verdict = "throw"
           THEN \* caught by the handler's catch: 200 with success:false
                /\ cb' = CbRespond(n, req, NoRecord, 0, 200, FALSE)
                /\ UNCHANGED <<transactionStore, fired, heard>>
           ELSE IF supabase
           THEN /\ cb' = CbAwait("lookup", n, req, NoRecord)
                /\ UNCHANGED <<transactionStore, fired, heard>>
           ELSE IF transactionId \in DOMAIN transactionStore
           THEN CallbackDispatch(n, req,
                    MergeCallback(transactionStore[transactionId], req))
           ELSE CallbackDispatch(n, req,
                    MergeCallback(SynthesizedRecord(transactionId), req))

\* the handler from the request to its first await (or to its response)
CallbackReceive(req) ==
    /\ cb.pc \in {"idle", "done"}
    /\ nReq < MaxRequests
    /\ SignatureSent(req)
    /\ nReq' = nReq + 1
    /\ UNCHANGED <<serviceVars, callbackListeners, supabase, secret, orders, momo, timers, nRef, poll, pay>>
    /\ LET n == cb.n + 1
           transactionId == TransactionIdOf(req)
           verdict == verifyCallbackSignature(req.signature, secret)
       IN  IF NoIdentifier(req)
           THEN /\ cb' = CbRespond(n, req, NoRecord, 0, 400, FALSE)
                /\ UNCHANGED <<transactionStore, fired, heard>>
           ELSE IF secret /\ req.signature # Null /\ verdict = "false"
           THEN /\ cb' = CbRespond(n, req, NoRecord, 0, 401, FALSE)
                /\ UNCHANGED <<transactionStore, fired, heard>>
           ELSE IF secret /\ req.signature # Null /\ verdict = "throw"
           THEN \* caught by the handler's catch: 200 with success:false
                /\ cb' = CbRespond(n, req, NoRecord, 0, 200, FALSE)
                /\ UNCHANGED <<transactionStore, fired, heard>>
           ELSE IF transactionId \in DOMAIN transactionStore
           THEN CallbackDispatch(n, req,
                    MergeCallback(transactionStore[transactionId], req))
           ELSE IF supabase
           THEN /\ cb' = CbAwait("lookup", n, req, NoRecord)
                /\ UNCHANGED <<transactionStore, fired, heard>>
           ELSE CallbackDispatch(n, req,
                    MergeCallback(SynthesizedRecord(transactionId), req))

\* the select on "orders" returns; merge and dispatch
CallbackLookup ==
    /\ cb.pc = "lookup"
    /\ UNCHANGED <<serviceVars, callbackListeners, supabase, secret, orders, momo, timers, nReq, nRef, poll, pay>>
    /\ \E dbOk \in BOOLEAN :
        LET transactionId == TransactionIdOf(cb.req)
            order == IF dbOk
                     THEN Single(RowsByReferenceOrExternal(
                              orders, transactionId, ExternalIdOf(cb.req)))
                     ELSE 0
            found == IF order # 0
                     THEN RecordOfOrder(orders, order, transactionId)
                     ELSE SynthesizedRecord(transactionId)
        IN  CallbackDispatch(cb.n, cb.req, MergeCallback(found, cb.req))

\* Mutation: a failed update is thrown, and the handler's catch answers.
CallbackUpdate_FailureSurfaced ==
    /\ cb.pc = "update"
    /\ UNCHANGED <<serviceVars, callbackListeners, supabase, secret, momo, timers, nReq, nRef, poll, pay>>
    /\ \E dbOk \in BOOLEAN :
        LET ids == RowsByReference(orders, cb.transactionData.referenceId)
        IN  IF dbOk
            THEN /\ orders' = UpdateRows(orders, ids,
                                  UpdateData(cb.transactionData, cb.transactionData.status,
                                             Or(cb.req.reason, Null)))
                 /\ CallbackFinish(cb.n, cb.req, cb.transactionData, Single(ids))
            ELSE /\ cb' = CbRespond(cb.n, cb.req, cb.transactionData, 0, 200, FALSE)
                 /\ UNCHANGED <<orders, transactionStore, fired, heard>>

\* the update on "orders" returns; cache update, hooks, response.
\* .select().single() yields the row when exactly one was updated (updatedOrder).
CallbackUpdate ==
    /\ cb.pc = "update"
    /\ UNCHANGED <<serviceVars, callbackListeners, supabase, secret, momo, timers, nReq, nRef, poll, pay>>
    /\ \E dbOk \in BOOLEAN :
        LET ids == RowsByReference(orders, cb.transactionData.referenceId)
        IN  /\ orders' =
                  IF dbOk
                  THEN UpdateRows(orders, ids,
                           UpdateData(cb.transactionData, cb.transactionData.status,
                                      Or(cb.req.reason, Null)))
                  ELSE orders
            /\ CallbackFinish(cb.n, cb.req, cb.transactionData,
                              IF dbOk THEN Single(ids) ELSE 0)

(***************************************************************************)
(* GET /status/:referenceId                                                *)
(* `cached` is the object read from the Map; the handler writes its status *)
(* field and puts it back under the same key in one synchronous stretch,   *)
(* so the poll's copy of the record is what ends up in the Map.            *)
(***************************************************************************)
PollIdle ==
    [pc |-> "idle", n |-> 0, referenceId |-> Null, hasCached |-> FALSE,
     cached |-> NoRecord, status |-> Null, financialTransactionId |-> Null,
     code |-> 0, source |-> Null]

PollRespond(p, code, status, source) ==
    [p EXCEPT !.pc = "done", !.code = code, !.status = status, !.source = source]

\* const cached = pendingTransactions.get(referenceId)
PollReadCache(p) ==
    [p EXCEPT !.hasCached = p.referenceId \in DOMAIN transactionStore,
              !.cached = IF p.referenceId \in DOMAIN transactionStore
                         THEN transactionStore[p.referenceId]
                         ELSE NoRecord]

\* the updateData of the poll
PollUpdateData(status, financialTransactionId) ==
    IF financialTransactionId # Null
    THEN [payment_status |-> status,
          financial_transaction_id |-> financialTransactionId]
    ELSE [payment_status |-> status]

\* what the network reports for a transaction it knows
MomoTransaction(status) ==
    [status |-> status,
     financialTransactionId |-> IF status = "SUCCESSFUL" THEN "FT1" ELSE Null]

\* the request up to its first await
PollStart(referenceId) ==
    /\ poll.pc \in {"idle", "done"}
    /\ nReq < MaxRequests
    /\ nReq' = nReq + 1
    /\ UNCHANGED <<serviceVars, callbackListeners, heard, supabase, secret, orders, transactionStore, momo, fired,
                   timers, nRef, cb, pay>>
    /\ LET p == [PollIdle EXCEPT !.n = poll.n + 1, !.referenceId = referenceId]
       IN  IF supabase
           THEN poll' = [p EXCEPT !.pc = "select"]
           ELSE poll' = [PollReadCache(p) EXCEPT !.pc = "fetch"]

\* the select on "orders" returns
PollSelect ==
    /\ poll.pc = "select"
    /\ UNCHANGED <<serviceVars, callbackListeners, heard, supabase, secret, orders, transactionStore, momo, fired,
                   timers, nReq, nRef, cb, pay>>
    /\ \E dbOk \in BOOLEAN :
        LET order == IF dbOk
                     THEN Single(RowsByReference(orders, poll.referenceId))
                     ELSE 0
        IN  IF order # 0 /\ orders[order].payment_status \in Terminal
            THEN poll' = PollRespond(poll, 200, orders[order].payment_status, "database")
            ELSE poll' = [PollReadCache(poll) EXCEPT !.pc = "fetch"]

\* cache update, response and the eviction timer
PollFinish(p) ==
    /\ transactionStore' =
          IF p.hasCached
          THEN MapSet(transactionStore, p.referenceId,
                      [p.cached EXCEPT !.status = p.status])
          ELSE transactionStore
    /\ timers' = IF p.status \in Terminal
                 THEN [timers EXCEPT ![p.referenceId] = @ + 1]
                 ELSE timers
    /\ poll' = PollRespond(p, 200, p.status, "momo_api")

\* getAccessToken and fetchTransactionDetails return
PollFetch ==
    /\ poll.pc = "fetch"
    /\ UNCHANGED <<serviceVars, callbackListeners, heard, supabase, secret, orders, momo, fired, nReq, nRef, cb, pay>>
    /\ \E outcome \in {"tokenError", "null", "found"} :
        IF outcome = "tokenError"
        THEN /\ poll' = PollRespond(poll, 500, Null, Null)
             /\ UNCHANGED <<transactionStore, timers>>
        ELSE IF outcome = "null" \/ momo[poll.referenceId] = Null
        THEN /\ poll' = IF poll.hasCached
                        THEN PollRespond(poll, 200, Or(poll.cached.status, "PENDING"), "cache")
                        ELSE PollRespond(poll, 404, Null, Null)
             /\ UNCHANGED <<transactionStore, timers>>
        ELSE LET transaction == MomoTransaction(momo[poll.referenceId])
                 p == [poll EXCEPT !.status = transaction.status,
                                   !.financialTransactionId =
                                       transaction.financialTransactionId]
             IN  IF supabase
                 THEN /\ poll' = [p EXCEPT !.pc = "update"]
                      /\ UNCHANGED <<transactionStore, timers>>
                 ELSE PollFinish(p)

\* the update on "orders" returns (its result is not looked at)
PollUpdate ==
    /\ poll.pc = "update"
    /\ UNCHANGED <<serviceVars, callbackListeners, heard, supabase, secret, momo, fired, nReq, nRef, cb, pay>>
    /\ \E dbOk \in BOOLEAN :
        orders' = IF dbOk
                  THEN UpdateRows(orders, RowsByReference(orders, poll.referenceId),
                           PollUpdateData(poll.status, poll.financialTransactionId))
                  ELSE orders
    /\ PollFinish(poll)

\* Mutation: the timer empties the Map.
TimerFire_ClearsCache(k) ==
    /\ timers[k] > 0
    /\ timers' = [timers EXCEPT ![k] = @ - 1]
    /\ transactionStore' = <<>>
    /\ UNCHANGED <<serviceVars, callbackListeners, heard, supabase, secret, orders, momo, fired, nReq, nRef, cb, poll, pay>>

\* setTimeout(() => pendingTransactions.delete(referenceId), 300000) fires
TimerFire(k) ==
    /\ timers[k] > 0
    /\ timers' = [timers EXCEPT ![k] = @ - 1]
    /\ transactionStore' =
          [x \in DOMAIN transactionStore \ {k} |-> transactionStore[x]]
    /\ UNCHANGED <<serviceVars, callbackListeners, heard, supabase, secret, orders, momo, fired, nReq, nRef, cb, poll, pay>>

\* the payment network settles a pending transaction
MomoSettle(k, status) ==
    /\ momo[k] = "PENDING"
    /\ momo' = [momo EXCEPT ![k] = status]
    /\ UNCHANGED <<serviceVars, callbackListeners, heard, supabase, secret, orders, transactionStore, fired, timers,
                   nReq, nRef, cb, poll, pay>>

(***************************************************************************)
(* formatLiberianPhone.  A phone is a sequence of one-character strings;   *)
(* <<>> is a missing phone.                                                *)
(***************************************************************************)
Digits == {"0", "1", "2", "3", "4", "5", "6", "7", "8", "9"}

IsDigit(c) == c \in Digits

\* phone.replace(/\D/g, "")
DigitsOnly(phone) == SelectSeq(phone, IsDigit)

\* .replace(/^0+/, "")   (the preceding .replace(/^\+/, "") finds no "+" left)
RECURSIVE StripLeadingZeros(_)
StripLeadingZeros(s) ==
    IF s # <<>> /\ Head(s) = "0" THEN StripLeadingZeros(Tail(s)) ELSE s

\* formattedPhone.startsWith("231")
StartsWith231(s) == Len(s) >= 3 /\ SubSeq(s, 1, 3) = <<"2", "3", "1">>

\* Mutation: the country code is prepended whether or not it is there.
FormattedPhone_AlwaysPrefixed(phone) ==
    <<"2", "3", "1">> \o StripLeadingZeros(DigitsOnly(phone))

\* the formatted phone before the length check
FormattedPhone(phone) ==
    LET stripped == StripLeadingZeros(DigitsOnly(phone))
    IN  IF StartsWith231(stripped) THEN stripped ELSE <<"2", "3", "1">> \o stripped

\* Liberia numbers must be 12 digits (231 + 9-digit number)
MsisdnLength == 12

formatLiberianPhone(phone) ==
    IF phone = <<>>
    THEN [success |-> FALSE, phone |-> <<>>]
    ELSE IF Len(FormattedPhone(phone)) # MsisdnLength
    THEN [success |-> FALSE, phone |-> <<>>]
    ELSE [success |-> TRUE, phone |-> FormattedPhone(phone)]

(***************************************************************************)
(* POST /pay                                                               *)
(***************************************************************************)
\* the phones the model submits: none, "0770123456", "0770"
Phones ==
    {<<>>,
     <<"0", "7", "7", "0", "1", "2", "3", "4", "5", "6">>,
     <<"0", "7", "7", "0">>}

\* The requests POST /pay receives; userInfo stands for `userInfo &&
\* deliveryInfo`.  A request that fails validation is drawn once per reason:
\* no phone, no amount, a phone of the wrong length.
PayRequests ==
    {r \in [phone : Phones, amount : {Null, "100"},
            externalId : {Null} \cup ExtIds, userInfo : BOOLEAN] :
        /\ (r.phone = <<>> \/ r.amount = Null \/ ~formatLiberianPhone(r.phone).success)
              => (r.externalId = Null /\ ~r.userInfo)
        /\ (r.amount = Null => formatLiberianPhone(r.phone).success)}

NoPayRequest ==
    [phone |-> <<>>, amount |-> Null, externalId |-> Null, userInfo |-> FALSE]

\* upstream: the status of the answer to the requesttopay POST, while
\* requestToPay holds it (0: none)
PayIdle ==
    [pc |-> "idle", n |-> 0, req |-> NoPayRequest, order |-> 0,
     referenceId |-> Null, status |-> Null, code |-> 0, upstream |-> 0]

PayRespond(p, code) == [p EXCEPT !.pc = "done", !.code = code]

\* const processId = externalId || `ORDER-${Date.now()}`
ProcessIdOf(req) == Or(req.externalId, "ORDER-NOW")

\* the row POST /pay inserts
NewOrder(req) ==
    [reference_id |-> Null, external_id |-> ProcessIdOf(req),
     payment_status |-> "PENDING", financial_transaction_id |-> Null,
     failure_reason |-> Null, callback_received |-> FALSE]

\* Mutation: only the phone is required.
MissingFields_PhoneOnly(req) == req.phone = <<>>

\* if (!phone || !amount)
MissingFields(req) == req.phone = <<>> \/ req.amount = Null

\* validation, up to the first await
PayStart(req) ==
    /\ pay.pc \in {"idle", "done"}
    /\ nReq < MaxRequests
    /\ nRef < Len(RefSeq)
    /\ nReq' = nReq + 1
    /\ UNCHANGED <<serviceVars, callbackListeners, heard, supabase, secret, orders, transactionStore, momo, fired,
                   timers, nRef, cb, poll>>
    /\ LET p == [PayIdle EXCEPT !.n = pay.n + 1, !.req = req]
       IN  IF MissingFields(req)
           THEN pay' = PayRespond(p, 400)
           ELSE IF ~formatLiberianPhone(req.phone).success
           THEN pay' = PayRespond(p, 400)
           ELSE IF supabase /\ req.userInfo
           THEN pay' = [p EXCEPT !.pc = "insert"]
           ELSE pay' = [p EXCEPT !.pc = "request"]

\* the insert into "orders" returns
PayInsert ==
    /\ pay.pc = "insert"
    /\ UNCHANGED <<serviceVars, callbackListeners, heard, supabase, secret, transactionStore, momo, fired, timers,
                   nReq, nRef, cb, poll>>
    /\ \E dbOk \in BOOLEAN :
        IF dbOk
        THEN /\ orders' = Append(orders, NewOrder(pay.req))
             /\ pay' = [pay EXCEPT !.pc = "request", !.order = Len(orders) + 1]
        ELSE /\ orders' = orders
             /\ pay' = [pay EXCEPT !.pc = "request"]

\* the upstream answers to the requesttopay POST the model draws from
UpstreamCodes == {200, 201, 202, 204, 400}

\* Mutation: every 2xx answer is taken as an acceptance.
Accepted_Any2xx(code) == code \in 200..299

\* response.status === 202 || response.status === 201 || response.status === 200
Accepted(code) == code = 202 \/ code = 201 \/ code = 200

\* getAccessToken, then requestToPay up to the answer to its POST
PayRequest ==
    /\ pay.pc = "request"
    /\ UNCHANGED <<serviceVars, callbackListeners, heard, supabase, secret, orders, transactionStore, fired, timers,
                   nReq, cb, poll>>
    /\ \/ \* getAccessToken throws: 500
          /\ pay' = PayRespond(pay, 500)
          /\ UNCHANGED <<momo, nRef>>
       \/ \E code \in UpstreamCodes :
            LET referenceId == RefSeq[nRef + 1]
            IN  /\ nRef' = nRef + 1
                /\ IF Accepted(code)
                   THEN /\ momo' = [momo EXCEPT ![referenceId] = "PENDING"]
                        /\ pay' = [pay EXCEPT !.pc = "fetch",
                                              !.referenceId = referenceId,
                                              !.upstream = code]
                   ELSE \* axios throws on a non-2xx answer (error.response.status);
                        \* another 2xx throws a plain Error (500)
                        /\ momo' = momo
                        /\ pay' = PayRespond([pay EXCEPT !.referenceId = referenceId,
                                                         !.upstream = code],
                                             IF code >= 300 THEN code ELSE 500)

\* Mutation: the record is cached as PENDING whatever the network reported.
PayFinish_AlwaysPending(p) ==
    /\ transactionStore' =
          MapSet(transactionStore, p.referenceId,
                 [NoRecord EXCEPT !.referenceId = p.referenceId,
                                  !.orderId = p.order,
                                  !.status = "PENDING"])
    /\ pay' = PayRespond(p, 200)

\* pendingTransactions.set(result.referenceId, {...}) and the response
PayFinish(p) ==
    /\ transactionStore' =
          MapSet(transactionStore, p.referenceId,
                 [NoRecord EXCEPT !.referenceId = p.referenceId,
                                  !.orderId = p.order,
                                  !.status = Or(p.status, "PENDING")])
    /\ pay' = PayRespond(p, 200)

\* fetchTransactionDetails inside requestToPay returns
PayFetch ==
    /\ pay.pc = "fetch"
    /\ UNCHANGED <<serviceVars, callbackListeners, heard, supabase, secret, orders, momo, fired, timers, nReq, nRef,
                   cb, poll>>
    /\ \E ok \in BOOLEAN :
        LET p == [pay EXCEPT !.status =
                      IF ok THEN MomoTransaction(momo[pay.referenceId]).status
                      ELSE Null,
                             !.upstream = 0]
        IN  IF supabase /\ p.order # 0
            THEN /\ pay' = [p EXCEPT !.pc = "reference"]
                 /\ UNCHANGED transactionStore
            ELSE PayFinish(p)

\* the update of reference_id returns (its result is not looked at)
PaySetReference ==
    /\ pay.pc = "reference"
    /\ UNCHANGED <<serviceVars, callbackListeners, heard, supabase, secret, momo, fired, timers, nReq, nRef, cb, poll>>
    /\ \E dbOk \in BOOLEAN :
        orders' = IF dbOk
                  THEN UpdateRows(orders, {pay.order},
                                  [reference_id |-> pay.referenceId])
                  ELSE orders
    /\ PayFinish(pay)

(***************************************************************************)
(* The system.                                                             *)
(***************************************************************************)
(***************************************************************************)
(* momoService: the access token and its cache.  Time is in minutes.  A    *)
(* call that finds no usable token posts to the token endpoint and awaits  *)
(* the answer; the endpoint issues the token when it answers, and the call *)
(* resumes with the answer some time later.                                *)
(***************************************************************************)
\* the handlers that call getAccessToken
Callers == {"a", "b"}

\* the clock stops here
MaxTime == 5

\* token exchanges the endpoint answers
MaxExchanges == 3

\* "5 minutes buffer": 300000 ms
TokenMargin == 5

\* (response.data?.expires_in || 3600) seconds
DefaultTtl == 60

\* cachedToken = null; a token is named by the number of its exchange
NoToken == 0

\* tokenExpiry = null; a Date at minute t is <<t>>
NoDate == <<>>

\* The answers of the token endpoint: an error, a body without access_token,
\* or a token whose lifetime the body states in expires_in or leaves out (0);
\* a token whose lifetime is left out lives the documented hour.
Answers ==
    {[ok |-> FALSE, token |-> FALSE, expires_in |-> 0],
     [ok |-> TRUE, token |-> FALSE, expires_in |-> 0],
     [ok |-> TRUE, token |-> TRUE, expires_in |-> 0],
     [ok |-> TRUE, token |-> TRUE, expires_in |-> 3],
     [ok |-> TRUE, token |-> TRUE, expires_in |-> 7]}

\* no answer yet
NoAnswer == [ok |-> FALSE, token |-> FALSE, expires_in |-> 0]

\* exchange, issuedAt, answer: the exchange the call awaits or resumed from
TokenCallIdle ==
    [pc |-> "idle", exchange |-> 0, issuedAt |-> 0, answer |-> NoAnswer,
     result |-> NoToken, cached |-> FALSE]

\* where the token in the cache comes from: nowhere, before the first one
NoOrigin == [issuedAt |-> 0, receivedAt |-> 0, expires_in |-> 0]

\* Mutation: the body of the response is not checked for an access_token.
ExchangeFails_TokenUnchecked(x) == ~x.ok

\* axios rejects, or `if (!accessToken) throw`: both end in the catch
ExchangeFails(x) == ~x.ok \/ ~x.token

\* Mutation: the expiry is stored without the buffer.
StoredExpiry_NoBuffer(at, expires_in) ==
    <<at + (IF expires_in = 0 THEN DefaultTtl ELSE expires_in)>>

\* new Date(Date.now() + expiresInMs - 300000)
StoredExpiry(at, expires_in) ==
    <<at + (IF expires_in = 0 THEN DefaultTtl ELSE expires_in) - TokenMargin>>

\* Mutation: an expiry later than the new one is kept.
StoreToken_KeepLaterExpiry(e, expiry) ==
    [token |-> e,
     expiry |-> IF tokenExpiry # NoDate /\ tokenExpiry[1] > expiry[1]
                THEN tokenExpiry ELSE expiry]

\* tokenExpiry = ...; cachedToken = ...: two assignments with no await between
StoreToken(e, expiry) == [token |-> e, expiry |-> expiry]

\* cachedToken && tokenExpiry && new Date() < tokenExpiry
CacheUsable == cachedToken # NoToken /\ tokenExpiry # NoDate /\ now < tokenExpiry[1]

\* getAccessToken up to its return of the cached token or to the await of the
\* exchange
TokenCall(c) ==
    /\ tokenCalls[c].pc \in {"idle", "returned", "failed"}
    /\ tokenCalls' = [tokenCalls EXCEPT ![c] =
            IF CacheUsable
            THEN [TokenCallIdle EXCEPT !.pc = "returned", !.result = cachedToken,
                                       !.cached = TRUE]
            ELSE [TokenCallIdle EXCEPT !.pc = "posted"]]
    /\ UNCHANGED <<routeVars, cachedToken, tokenExpiry, now, exchanges, phoneInput, phoneResult, payCall, requestBody>>

\* the token endpoint answers the request of call c: the token, if any, is
\* issued now
TokenIssue(c, answer) ==
    /\ tokenCalls[c].pc = "posted"
    /\ exchanges.n < MaxExchanges
    /\ exchanges' = [exchanges EXCEPT !.n = @ + 1]
    /\ tokenCalls' = [tokenCalls EXCEPT ![c].pc = "answered",
                                        ![c].exchange = exchanges.n + 1,
                                        ![c].issuedAt = now,
                                        ![c].answer = answer]
    /\ UNCHANGED <<routeVars, cachedToken, tokenExpiry, now, phoneInput, phoneResult, payCall, requestBody>>

\* getAccessToken from the answer of the exchange to its return or throw
TokenReceive(c) ==
    /\ tokenCalls[c].pc = "answered"
    /\ LET e == tokenCalls[c].exchange
           x == tokenCalls[c].answer
       IN  IF ExchangeFails(x)
           THEN /\ tokenCalls' = [tokenCalls EXCEPT ![c].pc = "failed"]
                /\ UNCHANGED <<cachedToken, tokenExpiry, exchanges>>
           ELSE LET stored == StoreToken(e, StoredExpiry(now, x.expires_in))
                IN  /\ tokenExpiry' = stored.expiry
                    /\ cachedToken' = stored.token
                    /\ exchanges' = [exchanges EXCEPT !.cached =
                            [issuedAt |-> tokenCalls[c].issuedAt, receivedAt |-> now,
                             expires_in |-> x.expires_in]]
                    /\ tokenCalls' = [tokenCalls EXCEPT ![c].pc = "returned",
                                                        ![c].result = stored.token]
    /\ UNCHANGED <<routeVars, now, phoneInput, phoneResult, payCall, requestBody>>

\* clearTokenCache
ClearTokenCache ==
    /\ cachedToken # NoToken
    /\ cachedToken' = NoToken
    /\ tokenExpiry' = NoDate
    /\ exchanges' = [exchanges EXCEPT !.cached = NoOrigin]
    /\ UNCHANGED <<routeVars, now, tokenCalls, phoneInput, phoneResult, payCall, requestBody>>

\* a minute passes
Tick ==
    /\ now < MaxTime
    /\ now' = now + 1
    /\ UNCHANGED <<routeVars, cachedToken, tokenExpiry, tokenCalls, exchanges,
                   phoneInput, phoneResult, payCall, requestBody>>

\* the value of phoneResult before formatLiberianPhone is called
NoPhoneResult == [success |-> FALSE, phone |-> <<"?">>]

(***************************************************************************)
(* requestToPay: the body of the POST to /collection/v1_0/requesttopay.    *)
(* The repository holds the function twice, in the module the routes       *)
(* require (services/momoService.js) and in the service module kept next   *)
(* to the routes; a call goes to one of them.                              *)
(***************************************************************************)
RequestToPayModules == {"services/momoService.js", "routes/payment.routes.js"}

\* an amount as the request carries it, a JSON number or a string; text is
\* what toString() yields for it
Amounts ==
    [kind : {"number", "string"}, text : {"100", "1", "250.5"}]
        \cup {[kind |-> "string", text |-> "1.00"]}

Currencies == {"LRD", "USD", "EUR"}

Messages == {"Payment for order", "Payment for Litway Picks", "Order 17"}

\* the calls of requestToPay(details, accessToken)
PayCalls ==
    [module : RequestToPayModules, amount : Amounts, currency : Currencies,
     message : Messages]

NoPayCall ==
    [module |-> "services/momoService.js", amount |-> [kind |-> "string", text |-> ""],
     currency |-> "", message |-> ""]

NoBody == [amount |-> "", currency |-> "", payerMessage |-> "", payeeNote |-> ""]

\* const requestBody = { amount, currency, ..., payerMessage, payeeNote }
RequestBody(call) ==
    IF call.module = "services/momoService.js"
    THEN [amount |-> call.amount.text,          \* details.amount.toString()
          currency |-> call.currency,
          payerMessage |-> call.message,
          payeeNote |-> call.message]
    ELSE [amount |-> "1.00",
          currency |-> "USD",
          \* "Payment for Litway Picks" || details.message
          payerMessage |-> "Payment for Litway Picks",
          payeeNote |-> "Payment for Litway Picks"]

\* no listener registered, no token cached, no call of a service made
ServicesInit ==
    /\ callbackListeners = <<>>
    /\ heard = [l \in Listeners |-> [n |-> 0, record |-> NoRecord]]
    /\ cachedToken = NoToken
    /\ tokenExpiry = NoDate
    /\ now = 0
    /\ tokenCalls = [c \in Callers |-> TokenCallIdle]
    /\ exchanges = [n |-> 0, cached |-> NoOrigin]
    /\ phoneInput = <<>>
    /\ phoneResult = NoPhoneResult
    /\ payCall = NoPayCall
    /\ requestBody = NoBody

Init ==
    /\ ServicesInit
    /\ supabase \in BOOLEAN
    /\ secret \in BOOLEAN
    /\ orders = <<>>
    /\ transactionStore = <<>>
    /\ momo = [k \in RefIds |-> Null]
    /\ fired = [h \in HookNames |-> [k \in Keys |-> 0]]
    /\ timers = [k \in RefIds |-> 0]
    /\ nReq = 0
    /\ nRef = 0
    /\ cb = CbIdle
    /\ poll = PollIdle
    /\ pay = PayIdle

Next ==
    \/ (nReq < MaxRequests /\ \E req \in CallbackRequests : CallbackReceive(req))
    \/ CallbackLookup
    \/ CallbackUpdate
    \/ \E k \in RefIds : PollStart(k)
    \/ PollSelect
    \/ PollFetch
    \/ PollUpdate
    \/ \E k \in RefIds : TimerFire(k)
    \/ \E k \in RefIds, status \in Terminal : MomoSettle(k, status)
    \/ (nReq < MaxRequests /\ \E req \in PayRequests : PayStart(req))
    \/ PayInsert
    \/ PayRequest
    \/ PayFetch
    \/ PaySetReference

Spec == Init /\ [][Next]_vars

(***************************************************************************)
(* Requests arriving one at a time: a request is received only when no     *)
(* handler is in flight.                                                   *)
(***************************************************************************)
Quiescent ==
    /\ cb.pc \in {"idle", "done"}
    /\ poll.pc \in {"idle", "done"}
    /\ pay.pc \in {"idle", "done"}

NextSequential ==
    \/ (Quiescent /\ nReq < MaxRequests
          /\ \E req \in CallbackRequests : CallbackReceive(req))
    \/ CallbackLookup
    \/ CallbackUpdate
    \/ (Quiescent /\ \E k \in RefIds : PollStart(k))
    \/ PollSelect
    \/ PollFetch
    \/ PollUpdate
    \/ \E k \in RefIds : TimerFire(k)
    \/ \E k \in RefIds, status \in Terminal : MomoSettle(k, status)
    \/ (Quiescent /\ nReq < MaxRequests
          /\ \E req \in PayRequests : PayStart(req))
    \/ PayInsert
    \/ PayRequest
    \/ PayFetch
    \/ PaySetReference

SpecSequential == Init /\ [][NextSequential]_vars

(***************************************************************************)
(* The process restarted while a payment was pending: the Map is empty,    *)
(* the order row (when there is a store) and the network still hold the    *)
(* transaction, and no further payment is initiated.                       *)
(***************************************************************************)
RestartOrder ==
    [reference_id |-> RefSeq[1], external_id |-> "E1",
     payment_status |-> "PENDING", financial_transaction_id |-> Null,
     failure_reason |-> Null, callback_received |-> FALSE]

InitRestart ==
    /\ ServicesInit
    /\ supabase \in BOOLEAN
    /\ secret \in BOOLEAN
    /\ orders = IF supabase THEN <<RestartOrder>> ELSE <<>>
    /\ transactionStore = <<>>
    /\ momo = [k \in RefIds |-> IF k = RefSeq[1] THEN "PENDING" ELSE Null]
    /\ fired = [h \in HookNames |-> [k \in Keys |-> 0]]
    /\ timers = [k \in RefIds |-> 0]
    /\ nReq = 0
    /\ nRef = Len(RefSeq)
    /\ cb = CbIdle
    /\ poll = PollIdle
    /\ pay = PayIdle

NextRestart ==
    \/ (nReq < MaxRequests /\ \E req \in CallbackRequests : CallbackReceive(req))
    \/ CallbackLookup
    \/ CallbackUpdate
    \/ \E k \in RefIds : PollStart(k)
    \/ PollSelect
    \/ PollFetch
    \/ PollUpdate
    \/ \E k \in RefIds : TimerFire(k)
    \/ \E k \in RefIds, status \in Terminal : MomoSettle(k, status)

SpecRestart == InitRestart /\ [][NextRestart]_vars

(***************************************************************************)
(* Two transactions in the Map: POST /pay has completed for the first      *)
(* reference id (its order row, when there is a store, carries it), and a  *)
(* PENDING callback identified by an external id that no row carries has   *)
(* been cached under that id.  Callbacks and status polls follow.          *)
(***************************************************************************)
EvictionOrder ==
    [NewOrder(NoPayRequest) EXCEPT !.reference_id = RefSeq[1]]

EvictionCache ==
    (RefSeq[1] :> [NoRecord EXCEPT !.referenceId = RefSeq[1],
                                   !.orderId = IF supabase THEN 1 ELSE 0,
                                   !.status = "PENDING"])
    @@ ("E1" :> [NoRecord EXCEPT !.referenceId = "E1",
                                 !.externalId = "E1",
                                 !.status = "PENDING"])

InitEviction ==
    /\ ServicesInit
    /\ supabase \in BOOLEAN
    /\ secret \in BOOLEAN
    /\ orders = IF supabase THEN <<EvictionOrder>> ELSE <<>>
    /\ transactionStore = EvictionCache
    /\ momo = [k \in RefIds |-> IF k = RefSeq[1] THEN "PENDING" ELSE Null]
    /\ fired = [h \in HookNames |-> [k \in Keys |-> 0]]
    /\ timers = [k \in RefIds |-> 0]
    /\ nReq = 0
    /\ nRef = Len(RefSeq)
    /\ cb = CbIdle
    /\ poll = PollIdle
    /\ pay = PayIdle

NextEviction ==
    \/ (nReq < MaxRequests /\ \E req \in CallbackRequests : CallbackReceive(req))
    \/ CallbackLookup
    \/ CallbackUpdate
    \/ \E k \in RefIds : PollStart(k)
    \/ PollSelect
    \/ PollFetch
    \/ PollUpdate
    \/ \E k \in RefIds : TimerFire(k)
    \/ \E k \in RefIds, status \in Terminal : MomoSettle(k, status)

SpecEviction == InitEviction /\ [][NextEviction]_vars

(***************************************************************************)
(* Callback listeners: registered and unregistered at any time, around one *)
(* pending payment that one callback and the status polls move on; the     *)
(* callback may meet a listener that raises an error.                      *)
(***************************************************************************)
\* callbackListeners.add(listener)
RegisterListener(l) ==
    /\ \A i \in DOMAIN callbackListeners : callbackListeners[i] # l
    /\ callbackListeners' = Append(callbackListeners, l)
    /\ UNCHANGED <<serviceVars, heard, supabase, secret, orders, transactionStore, momo,
                   fired, timers, nReq, nRef, cb, poll, pay>>

\* callbackListeners.delete(listener)
UnregisterListener(l) ==
    /\ \E i \in DOMAIN callbackListeners : callbackListeners[i] = l
    /\ callbackListeners' = SelectSeq(callbackListeners, LAMBDA x : x # l)
    /\ UNCHANGED <<serviceVars, heard, supabase, secret, orders, transactionStore, momo,
                   fired, timers, nReq, nRef, cb, poll, pay>>

ListenerRequests ==
    {r \in [header : {RefSeq[1]},
            signature : {Null, "valid"},
            referenceId : {Null},
            externalId : {Null},
            financialTransactionId : {Null},
            status : KnownStatus,
            reason : {Null},
            fault : {Null} \cup Listeners] : TRUE}

NextListeners ==
    \/ \E l \in Listeners : RegisterListener(l)
    \/ \E l \in Listeners : UnregisterListener(l)
    \/ (cb.pc = "idle" /\ nReq < MaxRequests
          /\ \E req \in ListenerRequests : CallbackReceive(req))
    \/ CallbackLookup
    \/ CallbackUpdate
    \/ \E k \in RefIds : PollStart(k)
    \/ PollSelect
    \/ PollFetch
    \/ PollUpdate
    \/ \E k \in RefIds : TimerFire(k)
    \/ \E k \in RefIds, status \in Terminal : MomoSettle(k, status)

SpecListeners == InitRestart /\ [][NextListeners]_vars

(***************************************************************************)
(* The token service alone: two handlers calling getAccessToken over and   *)
(* over while time passes, the endpoint answering in any order and after   *)
(* any delay, and the cache cleared at any time.                           *)
(***************************************************************************)
InitToken == Init /\ supabase /\ secret

NextToken ==
    \/ \E c \in Callers : TokenCall(c)
    \/ \E c \in Callers, answer \in Answers : TokenIssue(c, answer)
    \/ \E c \in Callers : TokenReceive(c)
    \/ ClearTokenCache
    \/ Tick

SpecToken == InitToken /\ [][NextToken]_vars

(***************************************************************************)
(* formatLiberianPhone on its own: one string, drawn from the ways a       *)
(* number is written (with "+", with leading zeros, with or without the    *)
(* country code, with separators or letters, too short, too long), is      *)
(* formatted once.                                                         *)
(***************************************************************************)
\* how a written number may begin
PhonePrefixes ==
    {<<>>, <<"+">>, <<"0">>, <<"0", "0">>, <<"2", "3", "1">>,
     <<"+", "2", "3", "1">>, <<"0", "2", "3", "1">>,
     <<"+", "2", "3", "1", " ", "0">>}

\* how it may go on
PhoneBodies ==
    {<<>>,
     <<"7", "7", "0", "1", "2", "3", "4", "5", "6">>,
     <<"7", "7", "-", "0", "1", "2", " ", "3", "4", "5", "6">>,
     <<"7", "7", "0", "1", "2", "3", "4", "5">>,
     <<"7", "7", "0", "1", "2", "3", "4", "5", "6", "7">>,
     <<"2", "3", "1", "1", "2", "3", "4", "5", "6">>,
     <<"2", "3", "1", "7", "7", "0", "1", "2", "3", "4", "5", "6">>,
     <<"7", "7", "0", "1", "2", "3">>,
     <<"a", "b", "c">>,
     <<"0", "0", "0">>}

PhoneInputs == {p \o b : p \in PhonePrefixes, b \in PhoneBodies}

InitPhone ==
    /\ supabase = TRUE
    /\ secret = TRUE
    /\ orders = <<>>
    /\ transactionStore = <<>>
    /\ momo = [k \in RefIds |-> Null]
    /\ fired = [h \in HookNames |-> [k \in Keys |-> 0]]
    /\ timers = [k \in RefIds |-> 0]
    /\ nReq = 0
    /\ nRef = 0
    /\ cb = CbIdle
    /\ poll = PollIdle
    /\ pay = PayIdle
    /\ callbackListeners = <<>>
    /\ heard = [l \in Listeners |-> [n |-> 0, record |-> NoRecord]]
    /\ cachedToken = NoToken
    /\ tokenExpiry = NoDate
    /\ now = 0
    /\ tokenCalls = [c \in Callers |-> TokenCallIdle]
    /\ exchanges = [n |-> 0, cached |-> NoOrigin]
    /\ phoneInput \in PhoneInputs
    /\ phoneResult = NoPhoneResult
    /\ payCall = NoPayCall
    /\ requestBody = NoBody

\* const phoneResult = formatLiberianPhone(phone)
FormatPhone ==
    /\ phoneResult = NoPhoneResult
    /\ phoneResult' = formatLiberianPhone(phoneInput)
    /\ UNCHANGED <<routeVars, cachedToken, tokenExpiry, now, tokenCalls, exchanges,
                   phoneInput, payCall, requestBody>>

NextPhone == FormatPhone

SpecPhone == InitPhone /\ [][NextPhone]_vars

\* one call of requestToPay, with any details, to either module
InitRequestBody ==
    /\ supabase = TRUE
    /\ secret = TRUE
    /\ orders = <<>>
    /\ transactionStore = <<>>
    /\ momo = [k \in RefIds |-> Null]
    /\ fired = [h \in HookNames |-> [k \in Keys |-> 0]]
    /\ timers = [k \in RefIds |-> 0]
    /\ nReq = 0
    /\ nRef = 0
    /\ cb = CbIdle
    /\ poll = PollIdle
    /\ pay = PayIdle
    /\ callbackListeners = <<>>
    /\ heard = [l \in Listeners |-> [n |-> 0, record |-> NoRecord]]
    /\ cachedToken = NoToken
    /\ tokenExpiry = NoDate
    /\ now = 0
    /\ tokenCalls = [c \in Callers |-> TokenCallIdle]
    /\ exchanges = [n |-> 0, cached |-> NoOrigin]
    /\ phoneInput = <<>>
    /\ phoneResult = NoPhoneResult
    /\ payCall \in PayCalls
    /\ requestBody = NoBody

\* requestToPay builds the body it posts
BuildRequestBody ==
    /\ requestBody = NoBody
    /\ requestBody' = RequestBody(payCall)
    /\ UNCHANGED <<routeVars, cachedToken, tokenExpiry, now, tokenCalls, exchanges,
                   phoneInput, phoneResult, payCall>>

NextRequestBody == BuildRequestBody

SpecRequestBody == InitRequestBody /\ [][NextRequestBody]_vars

(***************************************************************************)
(* One callback, over every combination of present and absent identifiers, *)
(* each field carrying a value of its own, before, during or after the     *)
(* payments the server initiates.                                          *)
(***************************************************************************)
ResolveRequests ==
    [header : {Null} \cup RefIds,
     signature : {Null, "valid"},
     referenceId : {Null} \cup OtherRefIds,
     externalId : {Null} \cup ExtIds,
     financialTransactionId : {Null} \cup FtIds,
     status : CallbackStatus,
     reason : {Null},
     fault : {Null}]

NextResolve ==
    \/ (cb.pc = "idle" /\ nReq < MaxRequests
          /\ \E req \in ResolveRequests : CallbackReceive(req))
    \/ CallbackLookup
    \/ CallbackUpdate
    \/ (nReq < MaxRequests /\ \E req \in PayRequests : PayStart(req))
    \/ PayInsert
    \/ PayRequest
    \/ PayFetch
    \/ PaySetReference

SpecResolve == Init /\ [][NextResolve]_vars

(***************************************************************************)
(* One callback of every status, with or without a reason and with any one *)
(* of its hooks raising an error, before, during or after the payments the  *)
(* server initiates.                                                       *)
(***************************************************************************)
HookRequests ==
    {r \in [header : {Null} \cup RefIds,
            signature : {Null, "valid"},
            referenceId : {Null},
            externalId : {Null} \cup ExtIds,
            financialTransactionId : {Null} \cup FtIds,
            status : CallbackStatus,
            reason : {Null, "EXPIRED"},
            fault : {Null} \cup SuccessHooks \cup FailureHooks] :
        /\ ~NoIdentifier(r)
        /\ (r.reason # Null => r.status = "FAILED")
        /\ (r.financialTransactionId # Null => r.status = "SUCCESSFUL")
        /\ (r.fault # Null => r.fault \in HooksOf(r.status))}

NextHooks ==
    \/ (cb.pc = "idle" /\ nReq < MaxRequests
          /\ \E req \in HookRequests : CallbackReceive(req))
    \/ CallbackLookup
    \/ CallbackUpdate
    \/ (nReq < MaxRequests /\ \E req \in PayRequests : PayStart(req))
    \/ PayInsert
    \/ PayRequest
    \/ PayFetch
    \/ PaySetReference

SpecHooks == Init /\ [][NextHooks]_vars

(***************************************************************************)
(* Callbacks and payments only, a callback naming a reference id of this   *)
(* server only once the network has been sent that id.                     *)
(***************************************************************************)
\* the reference ids the request names are known to the network
Issued(req) ==
    \A k \in {req.header, req.referenceId} \cap RefIds : momo[k] # Null

NextPayRace ==
    \/ (nReq < MaxRequests
          /\ \E req \in CallbackRequests : Issued(req) /\ CallbackReceive(req))
    \/ CallbackLookup
    \/ CallbackUpdate
    \/ (nReq < MaxRequests /\ \E req \in PayRequests : PayStart(req))
    \/ PayInsert
    \/ PayRequest
    \/ PayFetch
    \/ PaySetReference

SpecPayRace == Init /\ [][NextPayRace]_vars

(***************************************************************************)
(* Properties.                                                             *)
(***************************************************************************)
\* none of the four places an identifier can come from holds one
AllAbsent(req) ==
    /\ req.header = Null
    /\ req.referenceId = Null
    /\ req.externalId = Null
    /\ req.financialTransactionId = Null

\* the first identifier present, in the order header, body referenceId,
\* externalId, financialTransactionId
FirstPresent(req) ==
    IF req.header # Null THEN req.header
    ELSE IF req.referenceId # Null THEN req.referenceId
    ELSE IF req.externalId # Null THEN req.externalId
    ELSE req.financialTransactionId

\* C1: once the status of a transaction is SUCCESSFUL or FAILED, in the Map or
\* in the store, no step of a callback carrying PENDING or CREATED turns it
\* back into a non-terminal status.
C1_TerminalNeverReopened ==
    [][(cb' # cb /\ cb'.req.status \in NonTerminal) =>
          /\ \A k \in DOMAIN transactionStore :
                transactionStore[k].status \in Terminal =>
                    transactionStore'[k].status \in Terminal
          /\ \A i \in DOMAIN orders :
                orders[i].payment_status \in Terminal =>
                    orders'[i].payment_status \in Terminal]_vars

\* C2: a status that is SUCCESSFUL never becomes FAILED, and one that is FAILED
\* never becomes SUCCESSFUL, in the Map or in the store, by any step of a
\* callback or of a poll.
C2_TerminalNeverFlips ==
    [][(cb' # cb \/ poll' # poll) =>
          /\ \A k \in DOMAIN transactionStore \cap DOMAIN transactionStore' :
                (transactionStore[k].status \in Terminal
                   /\ transactionStore'[k].status \in Terminal) =>
                    transactionStore'[k].status = transactionStore[k].status
          /\ \A i \in DOMAIN orders :
                (orders[i].payment_status \in Terminal
                   /\ orders'[i].payment_status \in Terminal) =>
                    orders'[i].payment_status = orders[i].payment_status]_vars

\* C3: each terminal side-effect hook (confirmation email, inventory, loyalty
\* points, fulfilment, failure notification, failure log) has been called at
\* most once for any reference id, however many callbacks were delivered.
C3_HooksAtMostOnce ==
    \A h \in SuccessHooks \cup FailureHooks : \A k \in Keys : fired[h][k] <= 1

C5_BadRequestExactlyWithoutIdentifier ==
    [][cb' # cb =>
          /\ cb'.code = 400 <=> AllAbsent(cb'.req)
          /\ cb'.code = 400 => UNCHANGED <<transactionStore, orders, fired>>]_vars

\* a 400 answered while the Map holds a transaction
C5_BadRequestAnswered ==
    /\ cb.pc = "done"
    /\ cb.code = 400
    /\ AllAbsent(cb.req)
    /\ DOMAIN transactionStore # {}

\* C6: when POST /pay has answered 200 for reference id R and order id E, the
\* row (R, E) and the record under R are PENDING, and a callback that carries
\* only externalId E, SUCCESSFUL and a financialTransactionId finds the row
\* and completes, then the record under R and the row R are SUCCESSFUL with
\* that financialTransactionId, and each success hook was called once.
C6_ExternalIdReachesRecord ==
    [][\A R \in RefIds : \A i \in DOMAIN orders :
          (/\ pay.pc = "done" /\ pay.code = 200 /\ pay.referenceId = R
           /\ orders[i].reference_id = R
           /\ orders[i].external_id = "E1"
           /\ orders[i].payment_status = "PENDING"
           /\ R \in DOMAIN transactionStore
           /\ transactionStore[R].status = "PENDING"
           /\ cb.pc = "update"
           /\ cb.transactionData.orderId = i
           /\ cb.req = [NoRequest EXCEPT !.externalId = "E1",
                                         !.financialTransactionId = "FT1",
                                         !.status = "SUCCESSFUL",
                                         !.signature = cb.req.signature]
           /\ cb'.pc = "done")
          => /\ transactionStore'[R].status = "SUCCESSFUL"
             /\ transactionStore'[R].financialTransactionId = "FT1"
             /\ orders'[i].payment_status = "SUCCESSFUL"
             /\ orders'[i].financial_transaction_id = "FT1"
             /\ \A h \in SuccessHooks : \E k \in Keys :
                   /\ fired'[h][k] = fired[h][k] + 1
                   /\ \A x \in Keys \ {k} : fired'[h][x] = fired[h][x]]_vars

\* C7: the id a callback is processed under is the first one present among the
\* header x-reference-id, the body referenceId, externalId and
\* financialTransactionId, whichever of them are present; the record it
\* leaves in the Map is stored under that id.
C7_FirstPresentIdentifier ==
    /\ cb.pc = "update" => cb.transactionData.referenceId = FirstPresent(cb.req)
    /\ (cb.pc = "done" /\ cb.code = 200 /\ cb.success) =>
          /\ cb.transactionData.referenceId = FirstPresent(cb.req)
          /\ FirstPresent(cb.req) \in DOMAIN transactionStore

\* a callback without the header, processed under its body referenceId although
\* externalId and financialTransactionId are present as well
C7_BodyReferenceResolved ==
    /\ cb.pc = "done" /\ cb.code = 200 /\ cb.success
    /\ cb.req.header = Null
    /\ cb.req.referenceId = "R0"
    /\ cb.req.externalId = "E1"
    /\ cb.req.financialTransactionId = "FT1"
    /\ cb.transactionData.referenceId = "R0"

\* C8: no step changes the referenceId of a record that stays in the Map, nor
\* the reference_id of a row that has one.
C8_ReferenceIdImmutable ==
    [][/\ transactionStore' # transactionStore =>
             \A k \in DOMAIN transactionStore \cap DOMAIN transactionStore' :
                transactionStore'[k].referenceId = transactionStore[k].referenceId
       /\ orders' # orders =>
             \A i \in DOMAIN orders :
                orders[i].reference_id # Null =>
                    orders'[i].reference_id = orders[i].reference_id]_vars

\* a callback without the header that found its row through external_id and
\* completed, the row and the record under its reference id still in place
C8_FoundThroughExternalId ==
    /\ cb.pc = "done" /\ cb.code = 200 /\ cb.success
    /\ cb.req.header = Null
    /\ cb.req.externalId = "E1"
    /\ cb.transactionData.orderId \in DOMAIN orders
    /\ orders[cb.transactionData.orderId].reference_id \in RefIds
    /\ orders[cb.transactionData.orderId].reference_id \in DOMAIN transactionStore

\* C9: no step of a callback leaves null in a field of a record of the Map
\* that held a value.
C9_MergeKeepsPopulatedFields ==
    [][cb' # cb =>
          \A k \in DOMAIN transactionStore :
             \A f \in {"financialTransactionId", "externalId", "reason"} :
                transactionStore[k][f] # Null => transactionStore'[k][f] # Null]_vars

\* C10: no step of a poll turns a terminal status, written to the store by a
\* callback or held in the Map, into PENDING or CREATED.
C10_PollKeepsTerminal ==
    [][poll' # poll =>
          /\ \A i \in DOMAIN orders :
                (orders[i].callback_received
                   /\ orders[i].payment_status \in Terminal) =>
                    orders'[i].payment_status \notin NonTerminal
          /\ \A k \in DOMAIN transactionStore :
                transactionStore[k].status \in Terminal =>
                    transactionStore'[k].status \notin NonTerminal]_vars

\* C11: no step of the POST /pay handler turns a terminal status held in the
\* Map (recorded there by a callback that arrived while the payment was being
\* initiated) into PENDING or CREATED.
C11_PayKeepsTerminal ==
    [][pay' # pay =>
          \A k \in DOMAIN transactionStore :
             transactionStore[k].status \in Terminal =>
                 transactionStore'[k].status \notin NonTerminal]_vars

\* the rows of the store whose status differs from the Map's record for k
Disagreeing(k) ==
    {i \in RowsByReference(orders, k) :
        k \in DOMAIN transactionStore
          /\ transactionStore[k].status # orders[i].payment_status}

\* C12: with the store connected, when the Map and the store hold different
\* statuses for a reference id, a GET /status answered without a fresh status
\* from the network reports the store's status, and a callback for that id
\* reads the store's record (it does not go on with the Map's).
C12_StoreIsSourceOfTruth ==
    [][supabase =>
          /\ (poll' # poll /\ poll'.pc = "done" /\ poll'.code = 200
                /\ poll'.source # "momo_api") =>
                \A i \in Disagreeing(poll.referenceId) :
                    poll'.status = orders[i].payment_status
          /\ (cb' # cb /\ cb.pc \in {"idle", "done"} /\ cb'.code \notin {400, 401}
                /\ cb'.steps # <<"respond">>) =>
                (Disagreeing(FirstPresent(cb'.req)) # {} => cb'.pc = "lookup")]_vars

C14_SuccessUpserted ==
    [][(/\ supabase
        /\ cb.pc = "update" /\ cb'.pc = "done" /\ cb'.success
        /\ cb'.req.status = "SUCCESSFUL"
        /\ \A i \in DOMAIN orders : orders[i].reference_id # FirstPresent(cb'.req))
       => /\ \E i \in DOMAIN orders' :
                /\ orders'[i].reference_id = FirstPresent(cb'.req)
                /\ orders'[i].payment_status = "SUCCESSFUL"
                /\ orders'[i].financial_transaction_id =
                       cb'.req.financialTransactionId
          /\ FirstPresent(cb'.req) \in DOMAIN transactionStore'
          /\ transactionStore'[FirstPresent(cb'.req)].status = "SUCCESSFUL"]_vars

\* C15: a SUCCESSFUL callback that has been processed went through its steps in
\* this order: the store update (when a store is connected), the cache update,
\* the listeners, the confirmation email, the inventory, the loyalty points,
\* the fulfilment, and then the response; while the store update is in flight
\* none of the later steps has been made.
C15_SuccessStepsInOrder ==
    /\ (cb.pc = "done" /\ cb.req.status = "SUCCESSFUL" /\ cb.steps # <<"respond">>) =>
          cb.steps = (IF supabase THEN <<"store">> ELSE <<>>) \o
                     <<"cache", "notifyListeners", "sendConfirmationEmail",
                       "updateInventory", "awardLoyaltyPoints",
                       "triggerOrderFulfillment", "respond">>
    /\ cb.pc = "update" => cb.steps = <<>>

\* a SUCCESSFUL callback that updated its row and went through all eight steps
C15_SuccessProcessed ==
    /\ supabase
    /\ cb.pc = "done" /\ cb.code = 200 /\ cb.success
    /\ cb.req.status = "SUCCESSFUL"
    /\ cb.updatedOrder # 0
    /\ orders[cb.updatedOrder].payment_status = "SUCCESSFUL"
    /\ Len(cb.steps) = 8

\* C16: when the body of one hook raises an error while a callback is
\* processed, every hook of that status is still called (those after the
\* failing one included), each once, the Map holds the record with the new
\* status, and the callback is answered 200 with success:true.
C16_HookFailureIsolated ==
    [][(cb' # cb /\ cb'.pc = "done" /\ cb'.req.fault # Null) =>
          LET k == FirstPresent(cb'.req)
          IN  /\ cb'.code = 200
              /\ cb'.success
              /\ \A h \in HooksOf(cb'.req.status) :
                    /\ \E i \in DOMAIN cb'.steps : cb'.steps[i] = h
                    /\ fired'[h][k] = fired[h][k] + 1
              /\ k \in DOMAIN transactionStore'
              /\ transactionStore'[k].status = cb'.req.status]_vars

\* the confirmation email failed and the fulfilment was triggered all the same
C16_FulfilmentAfterFailedEmail ==
    /\ cb.pc = "done" /\ cb.code = 200
    /\ cb.req.status = "SUCCESSFUL"
    /\ cb.req.fault = "sendConfirmationEmail"
    /\ fired["triggerOrderFulfillment"][FirstPresent(cb.req)] = 1
    /\ cb.steps[Len(cb.steps) - 1] = "triggerOrderFulfillment"

C18_PendingFiresNoHook ==
    [][(cb' # cb /\ cb'.req.status \in NonTerminal) =>
          /\ \A h \in SuccessHooks \cup FailureHooks : fired'[h] = fired[h]
          /\ (cb'.pc = "done" /\ cb'.steps # <<"respond">>) =>
                cb'.steps = (IF supabase THEN <<"store">> ELSE <<>>) \o
                            <<"cache", "notifyListeners", "respond">>]_vars

\* a CREATED callback that updated its row and the Map and notified the listeners
C18_CreatedProcessed ==
    /\ cb.pc = "done" /\ cb.code = 200 /\ cb.success
    /\ cb.req.status = "CREATED"
    /\ cb.updatedOrder # 0
    /\ orders[cb.updatedOrder].callback_received
    /\ FirstPresent(cb.req) \in DOMAIN transactionStore
    /\ fired["notifyListeners"][FirstPresent(cb.req)] = 1

\* C19: a step of a callback whose status is missing or is none of PENDING,
\* CREATED, SUCCESSFUL, FAILED leaves the store, the calls of listeners and
\* hooks and every Map entry but the one of the resolved identifier as they
\* were; the callback is answered 200 and that entry then holds its record.
C19_UnknownStatusCacheOnly ==
    [][(cb' # cb /\ cb'.req.status \notin KnownStatus) =>
          LET k == FirstPresent(cb'.req)
          IN  /\ orders' = orders
              /\ fired' = fired
              /\ DOMAIN transactionStore' \subseteq DOMAIN transactionStore \cup {k}
              /\ \A x \in DOMAIN transactionStore \ {k} :
                    x \in DOMAIN transactionStore'
                      /\ transactionStore'[x] = transactionStore[x]
              /\ cb'.pc = "done" =>
                    /\ cb'.code = 200
                    /\ k \in DOMAIN transactionStore'
                    /\ transactionStore'[k] = cb'.transactionData]_vars

\* a callback with an unrecognized status answered 200, its record in the Map
\* next to another entry, the store holding a row
C19_UnknownStatusCached ==
    /\ supabase
    /\ cb.pc = "done" /\ cb.code = 200 /\ cb.success
    /\ cb.req.status = "TIMEOUT"
    /\ orders # <<>>
    /\ FirstPresent(cb.req) \in DOMAIN transactionStore
    /\ transactionStore[FirstPresent(cb.req)].status = "TIMEOUT"
    /\ Cardinality(DOMAIN transactionStore) = 2

\* C20: the status of every record in the Map and of every row in the store is
\* one of PENDING, CREATED, SUCCESSFUL, FAILED.
C20_StatusInDomain ==
    /\ \A k \in DOMAIN transactionStore : transactionStore[k].status \in KnownStatus
    /\ \A i \in DOMAIN orders : orders[i].payment_status \in KnownStatus


\* the status of the cache record or of the order row of k changes
StatusMoves(k) ==
    \/ /\ k \in DOMAIN transactionStore
       /\ k \in DOMAIN transactionStore'
       /\ transactionStore'[k].status # transactionStore[k].status
    \/ \E i \in DOMAIN orders :
          /\ orders[i].reference_id = k
          /\ orders'[i].payment_status # orders[i].payment_status

\* C21: every step that changes the status of a transaction's record, whether
\* a callback or a status poll makes it, calls every registered listener once
\* with a record of that transaction.
C21_ListenersHearEveryTransition ==
    [][\A k \in RefIds :
          StatusMoves(k) =>
              \A i \in DOMAIN callbackListeners :
                  LET l == callbackListeners[i]
                  IN  /\ heard'[l].n = heard[l].n + 1
                      /\ heard'[l].record.referenceId = k]_vars

\* C22: when a callback has notified the listeners, every registered
\* listener was called once with the record the callback processed, whether
\* or not one of them raised an error; the hooks of the status were all
\* called, the cache holds the record and the response is 200 success:true.
C22_ListenerFailureIsolated ==
    [][(/\ cb' # cb
        /\ cb'.pc = "done"
        /\ \E j \in DOMAIN cb'.steps : cb'.steps[j] = "notifyListeners")
       => /\ \A i \in DOMAIN callbackListeners :
                LET l == callbackListeners[i]
                IN  heard'[l] = [n |-> heard[l].n + 1, record |-> cb'.transactionData]
          /\ \A h \in HooksOf(cb'.transactionData.status) :
                \E j \in DOMAIN cb'.steps : cb'.steps[j] = h
          /\ cb'.steps[Len(cb'.steps)] = "respond"
          /\ transactionStore'[cb'.transactionData.referenceId] = cb'.transactionData
          /\ cb'.code = 200
          /\ cb'.success]_vars

\* a callback met two registered listeners, the first of which raised
C22_SecondListenerHeard ==
    /\ cb.pc = "done"
    /\ cb.req.fault = "L1"
    /\ callbackListeners = <<"L1", "L2">>
    /\ heard["L1"].n = 1
    /\ heard["L2"] = [n |-> 1, record |-> cb.transactionData]
    /\ cb.transactionData.status = "SUCCESSFUL"
    /\ cb.success

\* C23: every step that makes the status of a cache record SUCCESSFUL or
\* FAILED schedules a deletion of that record.
C23_TerminalWriteSchedulesDeletion ==
    [][\A k \in RefIds :
          (/\ k \in DOMAIN transactionStore'
           /\ transactionStore'[k].status \in Terminal
           /\ (k \in DOMAIN transactionStore =>
                  transactionStore[k].status # transactionStore'[k].status))
          => timers'[k] = timers[k] + 1]_vars


\* C24: GET /status answers from the store, without asking the network,
\* when the store's status is terminal; it answers with the cached status
\* only when the network has no record of the transaction; it answers 404
\* only when the store, the network and the cache all lack the transaction.
C24_StoreThenNetworkThenCache ==
    [][(poll' # poll /\ poll'.pc = "done") =>
          LET k == poll'.referenceId
              rows == RowsByReference(orders, k)
          IN  /\ poll'.source = "database" =>
                    /\ poll.pc = "select"
                    /\ \E i \in rows : /\ orders[i].payment_status \in Terminal
                                       /\ poll'.status = orders[i].payment_status
              /\ poll'.source = "cache" => momo[k] = Null
              /\ poll'.code = 404 =>
                    /\ rows = {}
                    /\ momo[k] = Null
                    /\ k \notin DOMAIN transactionStore]_vars


\* call c enters getAccessToken in this step
Entering(c) ==
    /\ tokenCalls[c].pc \in {"idle", "returned", "failed"}
    /\ tokenCalls'[c] # tokenCalls[c]

\* call c resumes with the answer of its exchange in this step
Resuming(c) ==
    /\ tokenCalls[c].pc = "answered"
    /\ tokenCalls'[c].pc # "answered"

\* the lifetime of a token, in minutes
Lifetime(expires_in) == IF expires_in = 0 THEN DefaultTtl ELSE expires_in

\* the moment the token in the cache stops being accepted
RealExpiry == exchanges.cached.issuedAt + Lifetime(exchanges.cached.expires_in)

C26_FailedExchangeLeavesCache ==
    [][\A c \in Callers :
          Resuming(c) =>
              IF ~tokenCalls[c].answer.ok \/ ~tokenCalls[c].answer.token
              THEN /\ tokenCalls'[c].pc = "failed"
                   /\ UNCHANGED <<cachedToken, tokenExpiry>>
              ELSE tokenCalls'[c].pc = "returned"]_vars

\* a call failed on an answer without access_token while the cache held the
\* token another call had stored
C26_FailedBesideCachedToken ==
    \E c \in Callers :
        /\ tokenCalls[c].pc = "failed"
        /\ tokenCalls[c].answer.ok
        /\ ~tokenCalls[c].answer.token
        /\ cachedToken # NoToken
        /\ cachedToken < tokenCalls[c].exchange
        /\ tokenExpiry # NoDate

\* C27: whatever the interleaving, a call that returns after an exchange
\* returns the token of its own, successful exchange and leaves that token
\* and that exchange's expiry in the cache; nothing else writes the cache,
\* except that clearTokenCache empties it: the cached token and expiry
\* always belong to one exchange, the successful exchange completed last.
C27_CachePairOfLastExchange ==
    [][/\ \A c \in Callers :
             (Resuming(c) /\ tokenCalls'[c].pc = "returned") =>
                 /\ tokenCalls[c].answer.ok /\ tokenCalls[c].answer.token
                 /\ tokenCalls'[c].result = tokenCalls[c].exchange
                 /\ cachedToken' = tokenCalls[c].exchange
                 /\ tokenExpiry' = <<now + Lifetime(tokenCalls[c].answer.expires_in)
                                        - TokenMargin>>
       /\ (cachedToken' # cachedToken \/ tokenExpiry' # tokenExpiry) =>
             \/ \E c \in Callers : Resuming(c) /\ tokenCalls'[c].pc = "returned"
             \/ cachedToken' = NoToken /\ tokenExpiry' = NoDate]_vars

\* two calls found the cache empty; the exchange answered first completed
\* last, with the earlier expiry, and the cache holds its token and expiry
C27_LastCompletedWins ==
    /\ tokenCalls["a"].pc = "returned" /\ ~tokenCalls["a"].cached
    /\ tokenCalls["b"].pc = "returned" /\ ~tokenCalls["b"].cached
    /\ tokenCalls["a"].result = 1
    /\ tokenCalls["b"].result = 2
    /\ tokenCalls["a"].answer.expires_in = 7
    /\ tokenCalls["b"].answer.expires_in = 0
    /\ cachedToken = 1
    /\ tokenExpiry = <<exchanges.cached.receivedAt + 7 - TokenMargin>>


\* C28: requestToPay goes on exactly when the network answers its POST with
\* 200, 201 or 202; on any other answer POST /pay responds with a status
\* outside 2xx and writes nothing into the cache.
C28_AcceptedExactlyOn2xx ==
    [][(pay.pc = "request" /\ pay' # pay /\ pay'.upstream # 0) =>
          /\ pay'.referenceId = RefSeq[nRef + 1]
          /\ IF pay'.upstream \in {200, 201, 202}
             THEN pay'.pc = "fetch"
             ELSE /\ pay'.pc = "done"
                  /\ pay'.code \notin 200..299
                  /\ transactionStore' = transactionStore]_vars

\* the network answered 204: POST /pay responded 500 and the cache has no
\* entry under the generated reference id
C28_NoContentRejected ==
    /\ pay.pc = "done"
    /\ pay.upstream = 204
    /\ pay.code = 500
    /\ pay.referenceId = RefSeq[1]
    /\ pay.referenceId \notin DOMAIN transactionStore

\* POST /pay responds with success in this step
PaySucceeds == pay' # pay /\ pay'.pc = "done" /\ pay'.code = 200

DigitsOf(s) == SelectSeq(s, LAMBDA c : c \in Digits)

\* s without the zeros it begins with
WithoutLeadingZeros(s) ==
    LET z == CHOOSE n \in 0..Len(s) :
                 /\ \A i \in 1..n : s[i] = "0"
                 /\ (n = Len(s) \/ s[n + 1] # "0")
    IN  SubSeq(s, z + 1, Len(s))

\* s with 231 in front, unless it begins with 231
WithCountryCode(s) ==
    IF Len(s) >= 3 /\ s[1] = "2" /\ s[2] = "3" /\ s[3] = "1"
    THEN s
    ELSE <<"2", "3", "1">> \o s

\* C30: for every string, formatLiberianPhone fails exactly when the digits
\* of the string, without leading zeros and with 231 in front if they do not
\* begin with it, are not 12; otherwise it succeeds with those 12 digits,
\* which begin with 231.  "0770123456" yields "231770123456".
C30_TwelveDigitsOrFailure ==
    phoneResult # NoPhoneResult =>
        LET expected == WithCountryCode(WithoutLeadingZeros(DigitsOf(phoneInput)))
        IN  /\ phoneResult.success <=> Len(expected) = 12
            /\ phoneResult.success =>
                  /\ phoneResult.phone = expected
                  /\ Len(phoneResult.phone) = 12
                  /\ \A i \in 1..12 : phoneResult.phone[i] \in Digits
                  /\ SubSeq(phoneResult.phone, 1, 3) = <<"2", "3", "1">>
            /\ phoneInput = <<"0", "7", "7", "0", "1", "2", "3", "4", "5", "6">> =>
                  phoneResult.phone =
                      <<"2", "3", "1", "7", "7", "0", "1", "2", "3", "4", "5", "6">>

\* a number written with the country code, leading zeros and separators
\* was formatted
C30_WrittenWithCountryCode ==
    /\ phoneInput = <<"0", "2", "3", "1", "7", "7", "-", "0", "1", "2", " ", "3", "4", "5", "6">>
    /\ phoneResult.success
    /\ phoneResult.phone = <<"2", "3", "1", "7", "7", "0", "1", "2", "3", "4", "5", "6">>


\* C31: POST /pay answers 400 at once exactly when phone or amount is
\* missing or the phone does not format to 12 digits; no row is inserted
\* then, no reference id is generated, nothing is sent to the network (no
\* token either: the handler is done) and the cache is unchanged.
C31_InvalidRequestRejected ==
    [][(pay.pc \in {"idle", "done"} /\ pay' # pay) =>
          LET req == pay'.req
              invalid == \/ req.phone = <<>>
                         \/ req.amount = Null
                         \/ ~formatLiberianPhone(req.phone).success
          IN  /\ invalid <=> (pay'.pc = "done" /\ pay'.code = 400)
              /\ invalid => UNCHANGED <<orders, transactionStore, momo, nRef>>
              /\ ~invalid => pay'.pc \in {"insert", "request"}]_vars

\* a request with a phone too short was answered 400 and left nothing behind
C31_ShortPhoneRejected ==
    /\ pay.pc = "done"
    /\ pay.code = 400
    /\ pay.req.phone = <<"0", "7", "7", "0">>
    /\ pay.req.amount = "100"
    /\ pay.order = 0
    /\ pay.referenceId = Null
    /\ nRef = 0
    /\ orders = <<>>


\* C32: whether or not the update of the order row takes effect, a callback
\* that has reached it puts its record, with the new status, into the cache
\* and answers 200 success:true, and a status poll that has reached it
\* writes the polled status into the cached record and answers 200 with that
\* status.
C32_StoreFailureNotSurfaced ==
    [][/\ (cb.pc = "update" /\ cb' # cb) =>
             /\ cb'.pc = "done" /\ cb'.code = 200 /\ cb'.success
             /\ cb'.transactionData.status =
                   (IF cb.transactionData.status = "CREATED"
                    THEN "PENDING" ELSE cb.transactionData.status)
             /\ transactionStore'[cb.transactionData.referenceId] = cb'.transactionData
       /\ (poll.pc = "update" /\ poll' # poll) =>
             /\ poll'.pc = "done" /\ poll'.code = 200
             /\ poll'.source = "momo_api"
             /\ poll'.status = poll.status
             /\ poll.hasCached =>
                   transactionStore'[poll.referenceId].status = poll.status]_vars

\* the update of a callback failed: the row of the transaction is as it
\* was, the cache holds the record as SUCCESSFUL and the answer was
\* success:true
C32_FailedUpdateAcknowledged ==
    /\ supabase
    /\ cb.pc = "done" /\ cb.code = 200 /\ cb.success
    /\ cb.updatedOrder = 0
    /\ cb.transactionData.status = "SUCCESSFUL"
    /\ cb.transactionData.referenceId \in DOMAIN transactionStore
    /\ transactionStore[cb.transactionData.referenceId].status = "SUCCESSFUL"
    /\ \E i \in DOMAIN orders :
          /\ orders[i].reference_id = cb.transactionData.referenceId
          /\ orders[i].payment_status = "PENDING"
          /\ ~orders[i].callback_received


\* C33: a cache record carries a failureReason only while its status is
\* FAILED.
C33_FailureReasonOnlyWhenFailed ==
    \A k \in DOMAIN transactionStore :
        transactionStore[k].failureReason # Null => transactionStore[k].status = "FAILED"


\* C34: the body requestToPay posts carries the amount, the currency and
\* the message of the details it was called with.
C34_BodyCarriesDetails ==
    requestBody # NoBody =>
        /\ requestBody.amount = payCall.amount.text
        /\ requestBody.currency = payCall.currency
        /\ requestBody.payerMessage = payCall.message
        /\ requestBody.payeeNote = payCall.message


\* the cache record and the order rows of k, when both exist, agree on the
\* status (in the state after the step)
StatusAgrees(k) ==
    k \in DOMAIN transactionStore' =>
        \A i \in DOMAIN orders' :
            orders'[i].reference_id = k =>
                orders'[i].payment_status = transactionStore'[k].status

\* C35: with requests handled one at a time, when a callback or a status
\* poll has answered 200, the cache record and the order row of its
\* reference id, when both exist, have the same status.
C35_CacheAndStoreAgree ==
    [][/\ (cb' # cb /\ cb'.pc = "done" /\ cb'.code = 200) =>
             StatusAgrees(TransactionIdOf(cb'.req))
       /\ (poll' # poll /\ poll'.pc = "done" /\ poll'.code = 200) =>
             StatusAgrees(poll'.referenceId)]_vars


\* C36: every entry of the Map is stored under the referenceId of the record
\* it holds.
C36_KeyIsReferenceId ==
    \A k \in DOMAIN transactionStore : transactionStore[k].referenceId = k

\* a completed callback identified by its external id alone has its record in
\* the Map under that id, beside the record of a reference id
C36_KeyedByCallbackIdentifier ==
    /\ cb.pc = "done" /\ cb.code = 200 /\ cb.success
    /\ cb.req.header = Null
    /\ TransactionIdOf(cb.req) \in DOMAIN transactionStore
    /\ \E k \in DOMAIN transactionStore : k # TransactionIdOf(cb.req)


\* C37: GET /status does not answer 404 for a reference id that has a row in
\* the store or an entry in the Map.
C37_KnownReferenceNever404 ==
    [][(poll' # poll /\ poll'.pc = "done" /\ poll'.code = 404) =>
          /\ RowsByReference(orders, poll'.referenceId) = {}
          /\ poll'.referenceId \notin DOMAIN transactionStore]_vars


\* C38: with a callback secret configured, no step of a callback whose
\* x-momo-signature is missing or does not match changes the Map or the store
\* or invokes a listener or a hook.
C38_UnsignedCallbackNotProcessed ==
    [][(cb' # cb /\ secret /\ cb'.req.signature # "valid") =>
          UNCHANGED <<transactionStore, orders, fired, heard>>]_vars


\* C39: once POST /pay has answered, the order row it inserted is not left
\* PENDING with a null reference_id.
C39_NoOrphanPendingRow ==
    (pay.pc = "done" /\ pay.order \in DOMAIN orders) =>
        ~(/\ orders[pay.order].reference_id = Null
          /\ orders[pay.order].payment_status = "PENDING")


\* C40: a step in which the eviction timer of a reference id fires removes
\* that reference id's entry from the Map and leaves every other entry and
\* every order row as it was; no step removes an order row.
C40_EvictionRemovesOnlyItsEntry ==
    [][/\ \A k \in RefIds :
             timers'[k] < timers[k] =>
                /\ DOMAIN transactionStore' = DOMAIN transactionStore \ {k}
                /\ \A x \in DOMAIN transactionStore' :
                      transactionStore'[x] = transactionStore[x]
                /\ orders' = orders
       /\ DOMAIN orders \subseteq DOMAIN orders'
       /\ \A i \in DOMAIN orders : orders'[i].external_id = orders[i].external_id]_vars

\* the timer of a terminal poll has fired: the polled reference id has left
\* the Map, the entry under the external id is still there and the order row
\* of the reference id is still in the store
C40_EvictedBesideOtherEntry ==
    /\ supabase
    /\ poll.pc = "done" /\ poll.code = 200 /\ poll.status \in Terminal
    /\ poll.source = "momo_api"
    /\ timers[poll.referenceId] = 0
    /\ poll.referenceId \notin DOMAIN transactionStore
    /\ "E1" \in DOMAIN transactionStore
    /\ RowsByReference(orders, poll.referenceId) # {}

=============================================================================
